---- MODULE Spec2Model ----
(***************************************************************************)
(* A state-machine model of agri_chatbot.py: the start-up credential check, *)
(* the chatbot loop, record_audio, transcribe_audio (the retry loop),       *)
(* generate_text, generate_speech / async_generate_speech and play_audio.   *)
(* A Python str is a sequence of one-character strings.  The external       *)
(* collaborators (sounddevice, soundfile, pygame, Deepgram, Gemini, the     *)
(* file system, the console) are nondeterministic: each call either raises  *)
(* or returns one of a small set of results.                                *)
(***************************************************************************)
EXTENDS Integers, Sequences, FiniteSets, TLC

(***************************************************************************)
(* Bounds of the model.                                                     *)
(***************************************************************************)
\* Number of input-mode prompts a behaviour shows.
MaxTurns == 2
\* Typed texts and transcripts: every string over TextAlphabet up to this length.
MaxTextLen == 1
\* Generated replies are up to this many characters over MAX_CHAR_LIMIT.
MaxOver == 1

(***************************************************************************)
(* Program constants.                                                       *)
(***************************************************************************)
max_retries == 3
retry_delay == 5
MAX_CHAR_LIMIT == 2000

(***************************************************************************)
(* Python values that are not text.                                         *)
(***************************************************************************)
\* A local variable that has not been assigned yet.
Unbound == <<"<unbound>">>
\* None where a str is expected (response.text of a blocked generation).
NoneText == <<"<None>">>
\* None where a file name is expected.
NoFile == <<"none", 0>>

(***************************************************************************)
(* str operations.                                                          *)
(***************************************************************************)
Whitespace == {" ", "\t", "\n", "\r"}

UpperCase == <<"A","B","C","D","E","F","G","H","I","J","K","L","M","N","O","P","Q","R","S","T","U","V","W","X","Y","Z">>
LowerCase == <<"a","b","c","d","e","f","g","h","i","j","k","l","m","n","o","p","q","r","s","t","u","v","w","x","y","z">>

LowerChar(c) ==
    IF \E i \in 1..Len(UpperCase) : UpperCase[i] = c
    THEN LowerCase[CHOOSE i \in 1..Len(UpperCase) : UpperCase[i] = c]
    ELSE c

\* str.lower()
Lower(s) == [i \in 1..Len(s) |-> LowerChar(s[i])]

\* str.strip(): drops the leading and the trailing whitespace
Strip(s) ==
    LET keep == {i \in 1..Len(s) : s[i] \notin Whitespace}
    IN  IF keep = {} THEN <<>>
        ELSE SubSeq(s, CHOOSE i \in keep : \A j \in keep : i <= j,
                       CHOOSE i \in keep : \A j \in keep : j <= i)

\* needle in s
Contains(s, needle) ==
    \E i \in 1..(Len(s) - Len(needle) + 1) : SubSeq(s, i, i + Len(needle) - 1) = needle

\* s[:n]
Slice(s, n) == SubSeq(s, 1, IF n < Len(s) THEN n ELSE Len(s))

\* Python truthiness of a str
Truthy(s) == Len(s) > 0

(***************************************************************************)
(* Literals of the program.                                                 *)
(***************************************************************************)
ModeQuit == <<"q">>
ModeVoice == <<"1">>
ModeText == <<"2">>

Greetings ==
    { <<"h","e","l","l","o">>, <<"h","e","l","l","o","?">>, <<"h","i">>,
      <<"h","i",".">>, <<"h","i","i","i","i","i">> }

GreetingReply == <<"H","i","!"," ","I","'","m"," ","y","o","u","r"," ","K","e","r","a","l","a"," ","A","g","r","i"," ","C","h","a","t","b","o","t","."," ","A","s","k"," ","m","e"," ","a","b","o","u","t"," ","f","a","r","m","i","n","g",","," ","w","e","a","t","h","e","r",","," ","o","r"," ","a","n","y","t","h","i","n","g"," ","e","l","s","e","!">>

Today == <<"t","o","d","a","y">>

DatePrefix == <<" ","(","C","u","r","r","e","n","t"," ","d","a","t","e"," ","i","s"," ">>

ConciseSuffix == <<" ","P","l","e","a","s","e"," ","k","e","e","p"," ","t","h","e"," ","r","e","s","p","o","n","s","e"," ","c","o","n","c","i","s","e"," ","a","n","d"," ","u","n","d","e","r"," ","2","0","0","0"," ","c","h","a","r","a","c","t","e","r","s",".">>

(***************************************************************************)
(* The inputs the environment supplies.                                     *)
(***************************************************************************)
\* os.getenv of a key: unset (None), set to the empty string, or set.
KeyUnset == "<unset>"
KeyValues == {KeyUnset, "", "key"}

\* What the user types at the input-mode prompt.
ModeInputs ==
    { <<"q">>, <<"Q">>, <<" ","q"," ">>, <<"1">>, <<" ","1">>, <<"2">>, <<"2","\t">>,
      <<>>, <<" ">>, <<"3">>, <<"e","x","i","t">> }

TextAlphabet == {" ", "a"}

StringsUpTo(n) == UNION { [1..k -> TextAlphabet] : k \in 0..n }

SampleTexts ==
    { <<"R","a","i","n"," ","T","o","d","a","y","?">>,
      <<" ","H","e","l","l","o","\t">> }

\* What the user types at "You: ", and what speech-to-text returns.
Texts == StringsUpTo(MaxTextLen) \cup SampleTexts

\* datetime.now().strftime("%A, %B %d, %Y")
Dates ==
    { <<"T","u","e","s","d","a","y",","," ","N","o","v","e","m","b","e","r"," ","0","3",","," ","2","0","2","6">>,
      <<"F","r","i","d","a","y",","," ","M","a","y"," ","0","1",","," ","2","0","2","6">> }

\* A generated reply of n characters.
ReplyChars == <<"a", "b", " ">>
Reply(n) == [i \in 1..n |-> ReplyChars[(i % 3) + 1]]
ReplyLengths ==
    {1, MAX_CHAR_LIMIT} \cup { MAX_CHAR_LIMIT + k : k \in 1..MaxOver }

(***************************************************************************)
(* The state.                                                               *)
(***************************************************************************)
VARIABLES
    GEMINI_API_KEY,     \* module level: os.getenv("GEMINI_API_KEY")
    DEEPGRAM_API_KEY,   \* module level: os.getenv("DEEPGRAM_API_KEY")
    clients,            \* module level: the clients constructed so far
    pc,                 \* the statement the program is at
    mode,               \* chatbot: mode
    audio_file,         \* chatbot: audio_file
    user_input,         \* chatbot: user_input
    bot_response,       \* chatbot: bot_response
    tmp_file,           \* record_audio: tmp_file.name
    attempt,            \* transcribe_audio: attempt
    text,               \* generate_speech: text
    filename,           \* generate_speech: filename
    files,              \* the temporary files that exist
    inflight,           \* the external operations in progress
    payload,            \* the text handed to the text-to-speech collaborator this turn
    sent_prompt,        \* the contents handed to the generation model this turn
    console,            \* the messages the last step printed
    failure,            \* the call that raised or failed in the last step, or "none"
    turn,               \* history: the number of prompts shown
    calls,              \* history: the external operations started since the last prompt
    acquired,           \* history: the raw text typed or transcribed this turn
    input_source,       \* history: where this turn's user_input came from
    input_turn,         \* history: the turn in which user_input was assigned
    gen_outcome,        \* history: how this turn's generate_text ended
    response_turn,      \* history: the turn in which bot_response was assigned
    stt_log,            \* history: the attempts and sleeps of this transcribe_audio call
    synth,              \* history: how this turn's synthesis ended
    unlink_failed       \* history: an os.unlink raised and left its file

keyV == <<GEMINI_API_KEY, DEEPGRAM_API_KEY, clients>>
loopV == <<mode, turn>>
inputV == <<user_input, acquired, input_source, input_turn>>
replyV == <<bot_response, gen_outcome, response_turn, sent_prompt>>
recV == <<audio_file, tmp_file>>
sttV == <<attempt, stt_log>>
speechV == <<text, filename, payload, synth>>
fsV == <<files, unlink_failed>>
opsV == <<inflight, calls>>

vars == <<keyV, pc, loopV, inputV, replyV, recV, sttV, speechV, fsV, opsV,
          console, failure>>

Init ==
    /\ GEMINI_API_KEY \in KeyValues
    /\ DEEPGRAM_API_KEY \in KeyValues
    /\ clients = {}
    /\ pc = "check_keys"
    /\ mode = Unbound
    /\ audio_file = NoFile
    /\ user_input = Unbound
    /\ bot_response = Unbound
    /\ tmp_file = NoFile
    /\ attempt = 0
    /\ text = Unbound
    /\ filename = NoFile
    /\ files = {}
    /\ inflight = {}
    /\ payload = Unbound
    /\ sent_prompt = Unbound
    /\ console = {}
    /\ failure = "none"
    /\ turn = 0
    /\ calls = {}
    /\ acquired = Unbound
    /\ input_source = "none"
    /\ input_turn = 0
    /\ gen_outcome = "none"
    /\ response_turn = 0
    /\ stt_log = <<>>
    /\ synth = "none"
    /\ unlink_failed = FALSE

(***************************************************************************)
(* Helpers of the actions.                                                  *)
(***************************************************************************)
\* The step prints msgs; nothing failed in it.
Say(msgs) == console' = msgs /\ failure' = "none"

\* The call `what` raised (or failed) in this step and the step prints msgs.
Fail(what, msgs) == console' = msgs /\ failure' = what

\* An external operation starts: it is in progress until it returns or raises.
Begin(op) == inflight' = inflight \cup {op} /\ calls' = calls \cup {op}

End(op) == inflight' = inflight \ {op} /\ UNCHANGED calls

\* An exception no handler catches: the interpreter prints the traceback and ends.
Uncaught(what) == pc' = "crashed" /\ Fail(what, {"Traceback"})

(***************************************************************************)
(* Module start-up.                                                         *)
(***************************************************************************)
\* not key
KeyMissing(key) == key = KeyUnset \/ key = ""

\* Fault variant of KeysMissing: `and` in place of `or`.
KeysMissingBoth(gemini, deepgram) == KeyMissing(gemini) /\ KeyMissing(deepgram)

\* not GEMINI_API_KEY or not DEEPGRAM_API_KEY
KeysMissing(gemini, deepgram) == KeyMissing(gemini) \/ KeyMissing(deepgram)

CheckKeys ==
    /\ pc = "check_keys"
    /\ IF KeysMissing(GEMINI_API_KEY, DEEPGRAM_API_KEY)
       THEN Fail("keys", {"Error: API keys not set."}) /\ pc' = "exit(1)"
       ELSE Say({}) /\ pc' = "init_clients"
    /\ UNCHANGED <<keyV, loopV, inputV, replyV, recV, sttV, speechV, fsV, opsV>>

\* genai.Client, DeepgramClient, pygame.mixer.init(), which raises without a device
InitClients ==
    /\ pc = "init_clients"
    /\ \E mixer_ok \in BOOLEAN :
          IF mixer_ok
          THEN /\ clients' = {"genai", "deepgram", "mixer"}
               /\ pc' = "main"
               /\ Say({})
          ELSE /\ clients' = {"genai", "deepgram"}
               /\ pc' = "startup_failed"
               /\ Fail("mixer", {"Traceback"})
    /\ UNCHANGED <<GEMINI_API_KEY, DEEPGRAM_API_KEY, loopV, inputV, replyV, recV,
                   sttV, speechV, fsV, opsV>>

Main ==
    /\ pc = "main"
    /\ pc' = "prompt"
    /\ Say({"Welcome to Kerala Agri Chatbot!"})
    /\ UNCHANGED <<keyV, loopV, inputV, replyV, recV, sttV, speechV, fsV, opsV>>

(***************************************************************************)
(* chatbot: the prompt and the choice of the input mode.                    *)
(***************************************************************************)
\* Fault variant of ModeBranch: the quit branch continues instead of breaking.
ModeBranchQuitContinues(m) ==
    CASE m = ModeQuit  -> "prompt"
      [] m = ModeVoice -> "rec_start"
      [] m = ModeText  -> "text_input"
      [] OTHER         -> "prompt"

\* Fault variant of ModeBranch: the invalid branch lacks its continue.
ModeBranchInvalidFallsThrough(m) ==
    CASE m = ModeQuit  -> "done"
      [] m = ModeVoice -> "rec_start"
      [] m = ModeText  -> "text_input"
      [] OTHER         -> "check_input"

\* Where the if / elif chain on mode goes.
ModeBranch(m) ==
    CASE m = ModeQuit  -> "done"
      [] m = ModeVoice -> "rec_start"
      [] m = ModeText  -> "text_input"
      [] OTHER         -> "prompt"

\* input("Choose input mode ...").strip().lower()
ReadMode(raw) == Lower(Strip(raw))

\* The prompt starts a turn: the histories of the turn start empty.
Prompt ==
    /\ pc = "prompt"
    /\ turn < MaxTurns
    /\ \E raw \in ModeInputs :
          /\ mode' = ReadMode(raw)
          /\ pc' = ModeBranch(mode')
          /\ Say(CASE mode' = ModeQuit -> {"Goodbye!"}
                   [] mode' \in {ModeVoice, ModeText} -> {}
                   [] OTHER -> {"Invalid option."})
    /\ turn' = turn + 1
    /\ calls' = {}
    /\ acquired' = Unbound
    /\ input_source' = "none"
    /\ gen_outcome' = "none"
    /\ synth' = "none"
    /\ sent_prompt' = Unbound
    /\ payload' = Unbound
    /\ UNCHANGED <<keyV, user_input, input_turn, bot_response, response_turn,
                   recV, sttV, text, filename, fsV, inflight>>

\* user_input = input("You: ").strip()
TextInput ==
    /\ pc = "text_input"
    /\ \E raw \in Texts :
          /\ acquired' = raw
          /\ user_input' = Strip(raw)
    /\ input_source' = "typed"
    /\ input_turn' = turn
    /\ pc' = "check_input"
    /\ Say({})
    /\ UNCHANGED <<keyV, loopV, replyV, recV, sttV, speechV, fsV, opsV>>

\* Fault variant of NoInput: `user_input is None` in place of `not user_input`.
NoInputIsNone(s) == s = NoneText

\* not user_input
NoInput(s) == ~Truthy(s)

CheckInput ==
    /\ pc = "check_input"
    /\ IF NoInput(user_input)
       THEN Say({"No input detected."}) /\ pc' = "prompt"
       ELSE Say({"Asking Gemini..."}) /\ pc' = "generate_text"
    /\ UNCHANGED <<keyV, loopV, inputV, replyV, recV, sttV, speechV, fsV, opsV>>

(***************************************************************************)
(* play_audio: load and play, wait until the mixer is idle, then unload.    *)
(* here: where the call starts; playing: while the mixer is busy; unload:   *)
(* the finally clause; after: where the caller goes on; msg: what the       *)
(* caller's handler prints when unload raises.                              *)
(***************************************************************************)
PlayStart(here, playing, unload) ==
    /\ pc = here
    /\ \E started \in BOOLEAN :
          IF started
          THEN /\ Begin("playback")
               /\ pc' = playing
               /\ Say({})
          ELSE /\ Fail("playback", {"Error playing audio with pygame"})
               /\ pc' = unload
               /\ UNCHANGED opsV
    /\ UNCHANGED <<keyV, loopV, inputV, replyV, recV, sttV, speechV, fsV>>

PlayEnd(playing, unload) ==
    /\ pc = playing
    /\ End("playback")
    /\ pc' = unload
    /\ Say({})
    /\ UNCHANGED <<keyV, loopV, inputV, replyV, recV, sttV, speechV, fsV>>

PlayUnload(unload, after, msg) ==
    /\ pc = unload
    /\ \E unloaded \in BOOLEAN :
          IF unloaded THEN Say({}) ELSE Fail("unload", {msg})
    /\ pc' = after
    /\ UNCHANGED <<keyV, loopV, inputV, replyV, recV, sttV, speechV, fsV, opsV>>

(***************************************************************************)
(* record_audio.                                                            *)
(***************************************************************************)
\* sd.rec(...): starts the recording, or raises (no input device)
RecStart ==
    /\ pc = "rec_start"
    /\ \E ok \in BOOLEAN :
          IF ok
          THEN /\ Begin("record")
               /\ pc' = "rec_wait"
               /\ Say({"Recording..."})
          ELSE /\ Uncaught("sd.rec")
               /\ UNCHANGED opsV
    /\ UNCHANGED <<keyV, loopV, inputV, replyV, recV, sttV, speechV, fsV>>

\* sd.wait(): blocks until the recording is complete, or raises
RecWait ==
    /\ pc = "rec_wait"
    /\ End("record")
    /\ \E ok \in BOOLEAN :
          IF ok
          THEN pc' = "rec_write" /\ Say({})
          ELSE Uncaught("sd.wait")
    /\ UNCHANGED <<keyV, loopV, inputV, replyV, recV, sttV, speechV, fsV>>

\* NamedTemporaryFile(delete=False), sf.write, close, os.path.exists
RecWrite ==
    /\ pc = "rec_write"
    /\ LET f == <<"wav", turn>> IN
       \E outcome \in {"tempfile_raises", "write_raises", "written", "not_created"} :
          CASE outcome = "tempfile_raises" ->
                 /\ Uncaught("NamedTemporaryFile")
                 /\ UNCHANGED <<files, recV>>
            [] outcome = "write_raises" ->
                 /\ Uncaught("sf.write")
                 /\ files' = files \cup {f}
                 /\ tmp_file' = f
                 /\ UNCHANGED audio_file
            [] outcome = "written" ->
                 /\ files' = files \cup {f}
                 /\ tmp_file' = f
                 /\ pc' = "rec_level"
                 /\ Say({})
                 /\ UNCHANGED audio_file
            [] outcome = "not_created" ->
                 \* return None; chatbot: "Failed to record audio. Try again."; continue
                 /\ Fail("record_file", {"Error: Audio file was not created.",
                                         "Failed to record audio. Try again."})
                 /\ audio_file' = NoFile
                 /\ tmp_file' = NoFile
                 /\ pc' = "prompt"
                 /\ UNCHANGED files
    /\ UNCHANGED <<keyV, loopV, inputV, replyV, sttV, speechV, unlink_failed, opsV>>

\* sf.read, np.max: the audio level
RecLevel ==
    /\ pc = "rec_level"
    /\ \E outcome \in {"read_raises", "quiet", "audible"} :
          CASE outcome = "read_raises" -> Uncaught("sf.read")
            [] outcome = "quiet" ->
                 /\ Say({"Audio level", "Warning: Audio is too quiet."})
                 /\ pc' = "rec_play"
            [] outcome = "audible" ->
                 /\ Say({"Audio level"})
                 /\ pc' = "rec_play"
    /\ UNCHANGED <<keyV, loopV, inputV, replyV, recV, sttV, speechV, fsV, opsV>>

RecPlayStart == PlayStart("rec_play", "rec_playing", "rec_unload")

RecPlayEnd == PlayEnd("rec_playing", "rec_unload")

RecPlayUnload == PlayUnload("rec_unload", "rec_plot", "Error playing audio")

\* the waveform plot, then return tmp_file.name
RecPlot ==
    /\ pc = "rec_plot"
    /\ \E plotted \in BOOLEAN :
          IF plotted THEN Say({}) ELSE Fail("plot", {"Error visualizing waveform"})
    /\ audio_file' = tmp_file
    /\ tmp_file' = NoFile
    /\ pc' = "transcribe"
    /\ UNCHANGED <<keyV, loopV, inputV, replyV, sttV, speechV, fsV, opsV>>

(***************************************************************************)
(* transcribe_audio: the retry loop around the speech-to-text call.         *)
(* stt_log holds one record per attempt and per sleep, in order:            *)
(*   kind "attempt": called (the collaborator was called), result           *)
(*     "pending"      the call is in progress                               *)
(*     "open_raised"  os.path.getsize or open raised, before the call       *)
(*     "call_raised"  transcribe_file raised                                *)
(*     "parse_raised" the call returned; reading the transcript raised      *)
(*     "returned"     the attempt returned transcript.strip()               *)
(*   kind "sleep": secs, the argument of time.sleep                         *)
(***************************************************************************)
AttemptEntry(called, result) ==
    [kind |-> "attempt", called |-> called, result |-> result, secs |-> 0]

SleepEntry(secs) ==
    [kind |-> "sleep", called |-> FALSE, result |-> "slept", secs |-> secs]

SetLastResult(log, result) ==
    [log EXCEPT ![Len(log)] = AttemptEntry(log[Len(log)].called, result)]

\* return s from transcribe_audio: user_input = transcribe_audio(audio_file)
ReturnTranscript(source, raw, s) ==
    /\ acquired' = raw
    /\ input_source' = source
    /\ user_input' = s
    /\ input_turn' = turn
    /\ attempt' = 0
    /\ pc' = "unlink_wav"

\* os.path.exists(audio_file); the file may be gone since record_audio saw it
TranscribeEnter ==
    /\ pc = "transcribe"
    /\ stt_log' = <<>>
    /\ \E present \in BOOLEAN :
          IF present
          THEN /\ attempt' = 0
               /\ pc' = "stt_attempt"
               /\ Say({})
               /\ UNCHANGED <<inputV, files>>
          ELSE /\ files' = files \ {audio_file}
               /\ Fail("audio_missing", {"Error: Audio file does not exist."})
               /\ ReturnTranscript("audio_missing", <<>>, <<>>)
    /\ UNCHANGED <<keyV, loopV, replyV, recV, speechV, unlink_failed, opsV>>

\* os.path.getsize, open, then deepgram.listen.rest.v("1").transcribe_file
SttAttempt ==
    /\ pc = "stt_attempt"
    /\ \E opened \in BOOLEAN :
          IF opened
          THEN /\ Begin("transcribe")
               /\ stt_log' = Append(stt_log, AttemptEntry(TRUE, "pending"))
               /\ pc' = "stt_wait"
               /\ Say({"Attempting to transcribe"})
          ELSE /\ stt_log' = Append(stt_log, AttemptEntry(FALSE, "open_raised"))
               /\ pc' = "stt_except"
               /\ Fail("open", {})
               /\ UNCHANGED opsV
    /\ UNCHANGED <<keyV, loopV, inputV, replyV, recV, attempt, speechV, fsV>>

\* the call returns or raises; response[...]["transcript"]; return transcript.strip()
SttReturn ==
    /\ pc = "stt_wait"
    /\ End("transcribe")
    /\ \E outcome \in {"call_raises", "no_transcript", "none_transcript", "transcript"} :
          IF outcome = "transcript"
          THEN \E t \in Texts :
                  /\ stt_log' = SetLastResult(stt_log, "returned")
                  /\ Say(IF Truthy(t) THEN {} ELSE {"WARNING: Empty transcript"})
                  /\ ReturnTranscript("transcript", t, Strip(t))
          ELSE /\ stt_log' = SetLastResult(stt_log,
                                IF outcome = "call_raises" THEN "call_raised"
                                                           ELSE "parse_raised")
               /\ pc' = "stt_except"
               /\ Fail(outcome, {})
               /\ UNCHANGED <<inputV, attempt>>
    /\ UNCHANGED <<keyV, loopV, replyV, recV, speechV, fsV>>

\* Fault variant of CanRetry: attempt < max_retries.
CanRetryOnceMore(n) == n < max_retries

\* attempt < max_retries - 1
CanRetry(n) == n < max_retries - 1

\* except Exception: retry after a sleep, or give up with ""
SttExcept ==
    /\ pc = "stt_except"
    /\ IF CanRetry(attempt)
       THEN /\ Fail("transcribe", {"Deepgram Speech-to-Text error", "Retrying"})
            /\ pc' = "stt_sleep"
            /\ UNCHANGED <<inputV, attempt>>
       ELSE /\ Fail("transcribe", {"Deepgram Speech-to-Text error", "Max retries reached."})
            /\ ReturnTranscript("stt_failed", <<>>, <<>>)
    /\ UNCHANGED <<keyV, loopV, replyV, recV, stt_log, speechV, fsV, opsV>>

\* the argument of time.sleep in the handler
SleepSeconds(n) == retry_delay

\* time.sleep(retry_delay), then the next iteration of for attempt in range(max_retries);
\* a loop that runs out returns None
SttSleep ==
    /\ pc = "stt_sleep"
    /\ stt_log' = Append(stt_log, SleepEntry(SleepSeconds(attempt)))
    /\ IF attempt + 1 < max_retries
       THEN /\ attempt' = attempt + 1
            /\ pc' = "stt_attempt"
            /\ UNCHANGED inputV
       ELSE ReturnTranscript("stt_failed", <<>>, NoneText)
    /\ Say({})
    /\ UNCHANGED <<keyV, loopV, replyV, recV, speechV, fsV, opsV>>

(***************************************************************************)
(* os.unlink(f) in a try / except that prints: it removes the file, or      *)
(* raises (the file is missing, or it cannot be removed and stays).         *)
(* before: what the step printed before the call.                           *)
(***************************************************************************)
Unlink(f, before) ==
    \E removed \in BOOLEAN :
       IF removed /\ f \in files
       THEN /\ files' = files \ {f}
            /\ UNCHANGED unlink_failed
            /\ Say(before)
       ELSE /\ UNCHANGED files
            /\ unlink_failed' = (unlink_failed \/ f \in files)
            /\ Fail("unlink", before \cup {"Failed to delete temporary file"})

\* chatbot: print("You said"), os.unlink(audio_file)
UnlinkWav ==
    /\ pc = "unlink_wav"
    /\ Unlink(audio_file, {"You said"})
    /\ stt_log' = <<>>
    /\ pc' = "check_input"
    /\ UNCHANGED <<keyV, loopV, inputV, replyV, recV, attempt, speechV, opsV>>

(***************************************************************************)
(* generate_text.                                                           *)
(***************************************************************************)
\* prompt.lower().strip() in ["hello", "hello?", "hi", "hi.", "hiiiii"]
IsGreeting(prompt) == Strip(Lower(prompt)) \in Greetings

\* the contents handed to client.models.generate_content
BuildPrompt(prompt, current_date) ==
    LET dated == IF Contains(Lower(prompt), Today)
                 THEN prompt \o DatePrefix \o current_date \o <<")">>
                 ELSE prompt
    IN  dated \o ConciseSuffix

GenerateText ==
    /\ pc = "generate_text"
    /\ IF IsGreeting(user_input)
       THEN /\ bot_response' = GreetingReply
            /\ gen_outcome' = "greeting"
            /\ response_turn' = turn
            /\ pc' = "print_reply"
            /\ UNCHANGED <<sent_prompt, opsV>>
       ELSE /\ \E current_date \in Dates :
                  sent_prompt' = BuildPrompt(user_input, current_date)
            /\ Begin("generate")
            /\ pc' = "gen_wait"
            /\ UNCHANGED <<bot_response, gen_outcome, response_turn>>
    /\ Say({})
    /\ UNCHANGED <<keyV, loopV, inputV, recV, sttV, speechV, fsV>>

\* generate_content returns or raises; bot_response = response.text
GenReturn ==
    /\ pc = "gen_wait"
    /\ End("generate")
    /\ \E outcome \in {"raises", "none_text", "text"} :
          CASE outcome = "raises" ->
                 /\ Fail("generate", {})
                 /\ gen_outcome' = "raised"
                 /\ pc' = "handle_error"
                 /\ UNCHANGED <<bot_response, response_turn>>
            [] outcome = "none_text" ->
                 /\ bot_response' = NoneText
                 /\ gen_outcome' = "none_text"
                 /\ response_turn' = turn
                 /\ pc' = "print_reply"
                 /\ Say({})
            [] outcome = "text" ->
                 /\ \E n \in ReplyLengths : bot_response' = Reply(n)
                 /\ gen_outcome' = "text"
                 /\ response_turn' = turn
                 /\ pc' = "print_reply"
                 /\ Say({})
    /\ UNCHANGED <<keyV, loopV, inputV, sent_prompt, recV, sttV, speechV, fsV>>

\* print("Bot:", bot_response); len(bot_response) raises on None
PrintReply ==
    /\ pc = "print_reply"
    /\ IF bot_response = NoneText
       THEN /\ Fail("len", {"Bot:"})
            /\ pc' = "handle_error"
       ELSE /\ Say({"Bot:", "Response length", "Speaking..."})
            /\ pc' = "speech"
    /\ UNCHANGED <<keyV, loopV, inputV, replyV, recV, sttV, speechV, fsV, opsV>>

\* Fault variant of HandleError: the handler re-raises.
HandleErrorReraises ==
    /\ pc = "handle_error"
    /\ Uncaught("reraise")
    /\ UNCHANGED <<keyV, loopV, inputV, replyV, recV, sttV, speechV, fsV, opsV>>

\* chatbot: except Exception as e: print(f"Error: {e}"); the loop goes on
HandleError ==
    /\ pc = "handle_error"
    /\ Say({"Error:"})
    /\ pc' = "prompt"
    /\ UNCHANGED <<keyV, loopV, inputV, replyV, recV, sttV, speechV, fsV, opsV>>

(***************************************************************************)
(* generate_speech and async_generate_speech.                               *)
(***************************************************************************)
\* Fault variant of Truncate: text[MAX_CHAR_LIMIT:] in place of text[:MAX_CHAR_LIMIT].
TruncateKeepsTail(t) ==
    IF Len(t) > MAX_CHAR_LIMIT THEN SubSeq(t, MAX_CHAR_LIMIT + 1, Len(t)) ELSE t

\* if len(text) > MAX_CHAR_LIMIT: text = text[:MAX_CHAR_LIMIT]
Truncate(t) == IF Len(t) > MAX_CHAR_LIMIT THEN Slice(t, MAX_CHAR_LIMIT) ELSE t

\* the truncation, then filename = tempfile.mktemp(suffix=".mp3"), which may raise
SpeechPrepare ==
    /\ pc = "speech"
    /\ \E named \in BOOLEAN :
          LET warning == IF Len(bot_response) > MAX_CHAR_LIMIT
                         THEN {"Warning: Text exceeds limit. Truncating to fit."}
                         ELSE {}
          IN  IF named
              THEN /\ text' = Truncate(bot_response)
                   /\ filename' = <<"mp3", turn>>
                   /\ pc' = "synth_start"
                   /\ Say(warning)
              ELSE /\ Fail("mktemp", warning)
                   /\ pc' = "handle_error"
                   /\ UNCHANGED <<text, filename>>
    /\ UNCHANGED <<keyV, loopV, inputV, replyV, recV, sttV, payload, synth, fsV, opsV>>

\* Fault variant of SynthStart: the coroutine is scheduled and not awaited.
SynthStartNotAwaited ==
    /\ pc = "synth_start"
    /\ payload' = text
    /\ Begin("synthesize")
    /\ pc' = "speech_play"
    /\ Say({})
    /\ UNCHANGED <<keyV, loopV, inputV, replyV, recV, sttV, text, filename, synth, fsV>>

\* asyncio.run(async_generate_speech(text, filename)): the save request is sent
SynthStart ==
    /\ pc = "synth_start"
    /\ payload' = text
    /\ Begin("synthesize")
    /\ pc' = "synth_wait"
    /\ Say({})
    /\ UNCHANGED <<keyV, loopV, inputV, replyV, recV, sttV, text, filename, synth, fsV>>

\* await ... save() returns or raises, with or without the file written;
\* asyncio.run returns or raises; then os.path.exists(filename)
SynthEnd ==
    /\ pc = "synth_wait"
    /\ End("synthesize")
    /\ \E raised \in BOOLEAN, saved \in BOOLEAN :
          /\ files' = IF saved THEN files \cup {filename} ELSE files
          /\ CASE raised ->
                    /\ synth' = "raised"
                    /\ Fail("synthesize", {"Deepgram TTS async error",
                                           "Deepgram Text-to-Speech error"})
                    /\ pc' = "speech_finally"
               [] ~raised /\ saved ->
                    /\ synth' = "saved"
                    /\ Say({"TTS Response"})
                    /\ pc' = "speech_play"
               [] ~raised /\ ~saved ->
                    /\ synth' = "not_saved"
                    /\ Fail("synthesize_file", {"TTS Response",
                                                "Error: Audio file was not generated."})
                    /\ pc' = "speech_finally"
    /\ UNCHANGED <<keyV, loopV, inputV, replyV, recV, sttV, text, filename, payload,
                   unlink_failed>>

SpeechPlayStart == PlayStart("speech_play", "speech_playing", "speech_unload")

SpeechPlayEnd == PlayEnd("speech_playing", "speech_unload")

SpeechPlayUnload ==
    PlayUnload("speech_unload", "speech_finally", "Deepgram Text-to-Speech error")

\* Fault variant of SpeechFinally: no finally clause, the file is left.
SpeechFinallyLeavesFile ==
    /\ pc = "speech_finally"
    /\ Say({})
    /\ text' = Unbound
    /\ filename' = NoFile
    /\ pc' = "prompt"
    /\ UNCHANGED <<keyV, loopV, inputV, replyV, recV, sttV, payload, synth, fsV, opsV>>

\* finally: if os.path.exists(filename): os.unlink(filename); then back to the loop
SpeechFinally ==
    /\ pc = "speech_finally"
    /\ IF filename \in files
       THEN Unlink(filename, {})
       ELSE UNCHANGED fsV /\ Say({})
    /\ text' = Unbound
    /\ filename' = NoFile
    /\ pc' = "prompt"
    /\ UNCHANGED <<keyV, loopV, inputV, replyV, recV, sttV, payload, synth, opsV>>

(***************************************************************************)
(* The program.                                                             *)
(***************************************************************************)
Next ==
    \/ CheckKeys
    \/ InitClients
    \/ Main
    \/ Prompt
    \/ TextInput
    \/ CheckInput
    \/ RecStart
    \/ RecWait
    \/ RecWrite
    \/ RecLevel
    \/ RecPlayStart
    \/ RecPlayEnd
    \/ RecPlayUnload
    \/ RecPlot
    \/ TranscribeEnter
    \/ SttAttempt
    \/ SttReturn
    \/ SttExcept
    \/ SttSleep
    \/ UnlinkWav
    \/ GenerateText
    \/ GenReturn
    \/ PrintReply
    \/ HandleError
    \/ SpeechPrepare
    \/ SynthStart
    \/ SynthEnd
    \/ SpeechPlayStart
    \/ SpeechPlayEnd
    \/ SpeechPlayUnload
    \/ SpeechFinally

Spec == Init /\ [][Next]_vars

(***************************************************************************)
(* Properties.                                                              *)
(***************************************************************************)
AttemptsOf(log) == {i \in 1..Len(log) : log[i].kind = "attempt"}
CallsOf(log) == {i \in AttemptsOf(log) : log[i].called}
SleepsOf(log) == {i \in 1..Len(log) : log[i].kind = "sleep"}
RaisedResults == {"open_raised", "call_raised", "parse_raised"}

\* The schedule of a retry loop: at most 3 calls; one sleep of 5 seconds between two
\* consecutive attempts, and none once transcribe_audio has returned.
RetrySchedule(log) ==
    /\ Cardinality(CallsOf(log)) <= 3
    /\ \A i \in SleepsOf(log) :
          /\ log[i].secs = 5
          /\ i > 1 /\ log[i - 1].kind = "attempt"
          /\ i < Len(log) => log[i + 1].kind = "attempt"
    /\ \A i \in AttemptsOf(log) : i > 1 => log[i - 1].kind = "sleep"
    /\ (pc = "unlink_wav" /\ log # <<>>) => log[Len(log)].kind = "attempt"

\* C1, as stated: the speech-to-text collaborator is called at most 3 times per
\* recording, a call is made again only after the previous call raised, a 5-second
\* sleep separates two consecutive attempts and none follows the last, and the first
\* call that does not raise ends the loop.
C1_RetryOnlyAfterCallRaised ==
    /\ RetrySchedule(stt_log)
    /\ \A i \in CallsOf(stt_log) :
          /\ \A j \in CallsOf(stt_log) : j < i => stt_log[j].result = "call_raised"
          /\ stt_log[i].result \notin {"pending", "call_raised"}
                => (i = Len(stt_log) /\ pc = "unlink_wav")

\* C1, amended: the collaborator is called at most 3 times per recording, an attempt
\* is made again only after the previous attempt raised inside the try block (the
\* call, os.path.getsize / open before it, or reading the transcript after it), a
\* 5-second sleep separates two consecutive attempts and none follows the last, and
\* the first attempt that does not raise ends the loop, also with an empty transcript.
C1_RetryOnlyAfterAttemptRaised ==
    /\ RetrySchedule(stt_log)
    /\ Cardinality(AttemptsOf(stt_log)) <= 3
    /\ \A i \in AttemptsOf(stt_log) :
          /\ \A j \in AttemptsOf(stt_log) : j < i => stt_log[j].result \in RaisedResults
          /\ stt_log[i].result = "returned"
                => (i = Len(stt_log) /\ pc = "unlink_wav")

\* C1 witness: the third attempt follows a call that returned without a transcript
\* and a 5-second sleep, and ends the loop with an empty transcript.
C1_Witness ==
    /\ pc = "unlink_wav"
    /\ Len(stt_log) = 5
    /\ stt_log[3].result = "parse_raised" /\ stt_log[3].called
    /\ stt_log[5].result = "returned"
    /\ user_input = <<>>

\* C2, as stated: after start-up no failure of a downstream step ends the process;
\* the process ends only when the user quits.
C2_NoFatalFailure == pc # "crashed"

\* C3: the text handed to the text-to-speech collaborator is the response when the
\* response has at most 2000 characters and its first 2000 characters otherwise: it
\* never exceeds 2000 characters and is always a prefix of the response.
C3_SpeechTextCapped ==
    "synthesize" \in calls =>
        /\ Len(payload) <= 2000
        /\ Len(payload) <= Len(bot_response)
        /\ \A i \in 1..Len(payload) : payload[i] = bot_response[i]
        /\ Len(bot_response) <= 2000 => payload = bot_response
        /\ Len(bot_response) > 2000 => Len(payload) = 2000

\* C3 witness: a response longer than the limit is being synthesized.
C3_Witness ==
    /\ pc = "synth_wait"
    /\ Len(bot_response) > 2000
    /\ Len(payload) = 2000

C5_MissingKeysExit ==
    LET missing == \/ GEMINI_API_KEY \in {KeyUnset, ""}
                   \/ DEEPGRAM_API_KEY \in {KeyUnset, ""}
    IN  /\ missing => /\ pc \in {"check_keys", "exit(1)"}
                      /\ clients = {}
                      /\ turn = 0
        /\ pc = "exit(1)" => (missing /\ console = {"Error: API keys not set."})

\* C5 witness: one key is set, the other is empty, and the program has exited.
C5_Witness ==
    pc = "exit(1)" /\ GEMINI_API_KEY = "key" /\ DEEPGRAM_API_KEY = ""

\* C6: the exit input ends the loop in the step that reads it, with no external
\* call in that turn and no step after it; an input that is neither an input mode
\* nor the exit input leaves the loop at the prompt and makes no external call.
C6_QuitEndsLoop ==
    /\ [](turn >= 1 =>
            /\ mode = <<"q">> <=> pc = "done"
            /\ pc = "done" => (calls = {} /\ inflight = {})
            /\ mode \notin {<<"q">>, <<"1">>, <<"2">>}
                  => (pc = "prompt" /\ calls = {} /\ inflight = {}))
    /\ [][pc # "done"]_vars

\* C6 witness: the user quits at the second prompt, after a turn that made calls.
C6_Witness == pc = "done" /\ turn = 2 /\ response_turn = 1

AllWhitespace(s) == \A i \in 1..Len(s) : s[i] \in Whitespace

\* C7: when the input of the turn is empty (typed text empty after trimming, a
\* transcription that failed on every attempt, an empty transcript, a missing
\* audio file), the generation model and the speech synthesizer are not called in
\* that turn and the loop goes back to the prompt.
C7_NoInputSkipsGeneration ==
    (input_source # "none" /\ AllWhitespace(acquired)) =>
        /\ pc \in {"unlink_wav", "check_input", "prompt"}
        /\ gen_outcome = "none"
        /\ calls \cap {"generate", "synthesize"} = {}

\* C7 witness: every transcription attempt failed and the loop is back at the prompt.
C7_Witness ==
    pc = "prompt" /\ input_source = "stt_failed" /\ console = {"No input detected."}

\* C8: at most one external operation is in progress at any time; playback in
\* generate_speech starts only after the synthesis call has ended without raising
\* and with the output file present.
C8_OneOperationAtATime ==
    /\ Cardinality(inflight) <= 1
    /\ pc \in {"speech_play", "speech_playing"} =>
          /\ "synthesize" \notin inflight
          /\ synth = "saved"
          /\ filename \in files

\* C8 witness: the synthesized reply is being played, and nothing else is in progress.
C8_Witness == pc = "speech_playing" /\ inflight = {"playback"}

\* C9: the text sent to the generation model is built from the input acquired in
\* the same turn, the text sent to speech synthesis is taken from the response of
\* the same turn, and a turn that acquires no input makes neither call.
C9_NoStateAcrossTurns ==
    /\ gen_outcome # "none" => input_turn = turn
    /\ "generate" \in calls =>
          /\ input_turn = turn
          /\ input_source \in {"typed", "transcript"}
          /\ Len(sent_prompt) >= Len(user_input)
          /\ SubSeq(sent_prompt, 1, Len(user_input)) = user_input
          /\ \A i \in 1..Len(user_input) :
                \E j \in 1..Len(acquired) : acquired[j] = user_input[i]
    /\ "synthesize" \in calls =>
          /\ response_turn = turn
          /\ Len(payload) <= Len(bot_response)
          /\ SubSeq(bot_response, 1, Len(payload)) = payload
    /\ input_turn # turn => calls \cap {"generate", "synthesize"} = {}

\* C9 witness: the second turn sends its own input and synthesizes its own response.
C9_Witness ==
    /\ turn = 2
    /\ pc = "synth_wait"
    /\ input_turn = 2
    /\ response_turn = 2
    /\ "generate" \in calls

\* C10: when the loop is at the prompt and no os.unlink has failed, no recorded
\* .wav file and no synthesized .mp3 file of an earlier turn exists.
C10_NoTempFilesAtPrompt ==
    (pc = "prompt" /\ ~unlink_failed) => files = {}

\* C10 witness: a voice turn whose synthesis raised after writing its file is over.
C10_Witness ==
    /\ pc = "prompt"
    /\ turn = 2
    /\ ~unlink_failed
    /\ "record" \in calls
    /\ synth = "raised"
    /\ failure = "none"

====
